---- MODULE Spec2Model ----
(***************************************************************************)
(* A model of aiotftp: the TFTP packet codec (packets.py, utils.py), the   *)
(* file handlers (iofile.py) and the per-transfer protocol sessions        *)
(* (protocols.py: BaseProtocolFactory, RRQProtocolFactory,                 *)
(* WRQProtocolFactory).                                                    *)
(*                                                                         *)
(* Python values are modelled with their type: a bytes object, a str and   *)
(* an int are records [ty, v], so that b'blksize' and 'blksize' differ as  *)
(* they do in Python.  Wire datagrams are sequences of byte values.  A     *)
(* dict is the sequence of its <<key, value>> pairs in insertion order.    *)
(***************************************************************************)
EXTENDS Integers, Sequences, FiniteSets, Bags, TLC

\* ------------------------------------------------------------------------
\* Python values
\* ------------------------------------------------------------------------
PyBytes(s) == [ty |-> "bytes", v |-> s]
PyStr(s) == [ty |-> "str", v |-> s]
PyInt(n) == [ty |-> "int", v |-> <<n>>]
PyFloat(n) == [ty |-> "float", v |-> <<n>>]
None == [ty |-> "none", v |-> <<>>]

NUL == 0

\* ASCII text used by the model
S_f == <<102>>
S_fg == <<102, 103>>
S_octet == <<111, 99, 116, 101, 116>>
S_netascii == <<110, 101, 116, 97, 115, 99, 105, 105>>
S_blksize == <<98, 108, 107, 115, 105, 122, 101>>
S_timeout == <<116, 105, 109, 101, 111, 117, 116>>
S_tsize == <<116, 115, 105, 122, 101>>
S_windowsize == <<119, 105, 110, 100, 111, 119, 115, 105, 122, 101>>
S_1024 == <<49, 48, 50, 52>>
S_0 == <<48>>
S_FileExists == <<70, 105, 108, 101, 32, 97, 108, 114, 101, 97, 100, 121, 32, 101, 120, 105, 115, 116, 115>>
S_PermissionDenied == <<80, 101, 114, 109, 105, 115, 115, 105, 111, 110, 32, 100, 101, 110, 105, 101, 100>>
S_FileNotFound == <<70, 105, 108, 101, 32, 110, 111, 116, 32, 102, 111, 117, 110, 100>>
S_UnknownTid == <<85, 110, 114, 101, 99, 111, 103, 110, 105, 122, 101, 100, 32, 116, 114, 97, 110, 115, 102, 101, 114, 32, 105, 100>>

\* ------------------------------------------------------------------------
\* Sequence helpers (Python slicing, join, split)
\* ------------------------------------------------------------------------
Min(a, b) == IF a < b THEN a ELSE b
Max(a, b) == IF a > b THEN a ELSE b

\* s[:n]
Take(s, n) == SubSeq(s, 1, Min(n, Len(s)))
\* s[n:]
Drop(s, n) == SubSeq(s, Min(n, Len(s)) + 1, Len(s))

\* sep.join(parts)
RECURSIVE Join(_, _)
Join(sep, parts) ==
    IF parts = <<>> THEN <<>>
    ELSE IF Len(parts) = 1 THEN Head(parts)
    ELSE Head(parts) \o sep \o Join(sep, Tail(parts))

\* data.split(b'\x00'): the fields between the NUL bytes, empty ones included
RECURSIVE SplitNul(_, _)
SplitNul(data, cur) ==
    IF data = <<>> THEN <<cur>>
    ELSE IF Head(data) = NUL THEN <<cur>> \o SplitNul(Tail(data), <<>>)
    ELSE SplitNul(Tail(data), Append(cur, Head(data)))

RECURSIVE NonEmpty(_)
NonEmpty(items) ==
    IF items = <<>> THEN <<>>
    ELSE IF Head(items) = <<>> THEN NonEmpty(Tail(items))
    ELSE <<Head(items)>> \o NonEmpty(Tail(items))

\* dict: d[k] = v
RECURSIVE DictSet(_, _, _)
DictSet(d, k, v) ==
    IF d = <<>> THEN <<<<k, v>>>>
    ELSE IF Head(d)[1] = k THEN <<<<k, v>>>> \o Tail(d)
    ELSE <<Head(d)>> \o DictSet(Tail(d), k, v)

DictKeys(d) == {d[i][1] : i \in 1..Len(d)}

\* dict(zip(items[::2], items[1::2])) over bytes fields: a trailing item
\* without a partner is dropped by zip
RECURSIVE ZipPairs(_, _)
ZipPairs(items, d) ==
    IF Len(items) < 2 THEN d
    ELSE ZipPairs(Tail(Tail(items)), DictSet(d, PyBytes(items[1]), PyBytes(items[2])))

\* ------------------------------------------------------------------------
\* utils.py: option validators, parse_request, ensure_request
\* ------------------------------------------------------------------------
Ok(x) == [ok |-> TRUE, val |-> x, exc |-> "none"]
Raise(e) == [ok |-> FALSE, val |-> None, exc |-> e]

IsDigit(c) == c >= 48 /\ c <= 57

RECURSIVE DigitsValue(_, _)
DigitsValue(s, acc) ==
    IF s = <<>> THEN acc ELSE DigitsValue(Tail(s), acc * 10 + (Head(s) - 48))

\* int(value) for an int, or for bytes/str holding an optional '-' and digits
ParseInt(value) ==
    IF value.ty = "int" THEN Ok(value.v[1])
    ELSE LET s == value.v
             neg == s # <<>> /\ Head(s) = 45
             digits == IF neg THEN Tail(s) ELSE s
         IN IF digits # <<>> /\ \A i \in 1..Len(digits) : IsDigit(digits[i])
            THEN Ok(IF neg THEN 0 - DigitsValue(digits, 0) ELSE DigitsValue(digits, 0))
            ELSE Raise("ValueError")

BlksizeLowerBound == 8
BlksizeUpperBound == 65464
TimeoutLowerBound == 1
TimeoutUpperBound == 255
WindowsizeLowerBound == 1
WindowsizeUpperBound == 65535

ensure_blksize(value) ==
    LET p == ParseInt(value) IN
    IF ~p.ok THEN p
    ELSE IF p.val > BlksizeUpperBound THEN Ok(PyInt(p.val - (p.val - BlksizeUpperBound)))
    ELSE IF p.val > BlksizeLowerBound THEN Raise("ValueError")
    ELSE Ok(PyInt(p.val))

ensure_timeout(value) ==
    LET p == ParseInt(value) IN
    IF ~p.ok THEN p
    ELSE IF p.val > TimeoutUpperBound \/ p.val < TimeoutLowerBound THEN Raise("ValueError")
    ELSE Ok(PyFloat(p.val))

ensure_tsize(value) ==
    LET p == ParseInt(value) IN IF ~p.ok THEN p ELSE Ok(PyInt(p.val))

ensure_windowsize(value) ==
    LET p == ParseInt(value) IN
    IF ~p.ok THEN p
    ELSE IF p.val > WindowsizeUpperBound THEN Ok(PyInt(p.val - (p.val - WindowsizeUpperBound)))
    ELSE IF p.val > WindowsizeLowerBound THEN Raise("ValueError")
    ELSE Ok(PyInt(p.val))

\* asdict(SupportedOptions()): the keys are str, the values the validators
SupportedOptions ==
    << <<PyStr(S_blksize), "ensure_blksize">>, <<PyStr(S_timeout), "ensure_timeout">>,
       <<PyStr(S_tsize), "ensure_tsize">>, <<PyStr(S_windowsize), "ensure_windowsize">> >>

\* TFTPPacketFactory() of the server factory: no supported options
NoSupportedOptions == <<>>

\* supported_options[key](value)
CallValidator(supported, key, value) ==
    LET name == (CHOOSE i \in 1..Len(supported) : supported[i][1] = key)
        f == supported[name][2]
    IN CASE f = "ensure_blksize" -> ensure_blksize(value)
         [] f = "ensure_timeout" -> ensure_timeout(value)
         [] f = "ensure_tsize" -> ensure_tsize(value)
         [] OTHER -> ensure_windowsize(value)

RECURSIVE AcknowledgedOptions(_, _, _)
AcknowledgedOptions(options, supported, acc) ==
    IF options = <<>> THEN acc
    ELSE LET key == Head(options)[1]
             value == Head(options)[2]
             rest == Tail(options)
         IN IF key \in DictKeys(supported)
            THEN LET r == CallValidator(supported, key, value)
                 IN IF r.ok THEN AcknowledgedOptions(rest, supported, DictSet(acc, key, r.val))
                    ELSE AcknowledgedOptions(rest, supported, acc)
            ELSE AcknowledgedOptions(rest, supported, acc)

\* (fname.decode('ascii'), mode, acknowledged_options)
ensure_request(fname, mode, options, supported) ==
    [fname |-> PyStr(fname.v), mode |-> mode,
     options |-> AcknowledgedOptions(options, supported, <<>>)]

\* fname, mode, *options = [item for item in data.split(b'\x00') if item]
parse_request(data) ==
    LET items == NonEmpty(SplitNul(data, <<>>)) IN
    IF Len(items) < 2 THEN Raise("ValueError")
    ELSE Ok([fname |-> PyBytes(items[1]), mode |-> PyBytes(items[2]),
             options |-> ZipPairs(Tail(Tail(items)), <<>>)])

\* ------------------------------------------------------------------------
\* packets.py: the packet classes and TFTPPacketFactory
\* ------------------------------------------------------------------------
ShortMod == 65536

\* A packet object: the class (type) and its attributes; an attribute the
\* class does not have is None (options: the empty dict)
Packet(type, fname, mode, options, block_no, data, code, message) ==
    [type |-> type, fname |-> fname, mode |-> mode, options |-> options,
     block_no |-> block_no, data |-> data, code |-> code, message |-> message]

\* TFTPRequestPacket(type, fname=, mode=, options=): _mode = mode.decode()
TFTPRequestPacket(type, fname, mode, options) ==
    Packet(type, fname, PyStr(mode.v), options, None, None, None, None)
TFTPAckPacket(block_no) == Packet("ACK", None, None, <<>>, PyInt(block_no), None, None, None)
TFTPDatPacket(block_no, data) == Packet("DAT", None, None, <<>>, PyInt(block_no), data, None, None)
TFTPErrPacket(code, message) == Packet("ERR", None, None, <<>>, None, None, PyInt(code), message)
TFTPOckPacket(options) == Packet("OCK", None, None, options, None, None, None, None)

create_err_file_exists == TFTPErrPacket(6, PyStr(S_FileExists))
create_err_access_violation == TFTPErrPacket(2, PyStr(S_PermissionDenied))
create_err_file_404 == TFTPErrPacket(1, PyStr(S_FileNotFound))
create_err_unknown_tid == TFTPErrPacket(5, PyStr(S_UnknownTid))

\* PacketTypes.encode
PacketTypes_encode(type) ==
    CASE type = "RRQ" -> <<0, 1>>
      [] type = "WRQ" -> <<0, 2>>
      [] type = "DAT" -> <<0, 3>>
      [] type = "ACK" -> <<0, 4>>
      [] type = "ERR" -> <<0, 5>>
      [] OTHER -> <<0, 6>>

\* PacketTypes.decode: ValueError for any other two bytes (or fewer)
PacketTypes_decode(code) ==
    CASE code = <<0, 1>> -> Ok("RRQ")
      [] code = <<0, 2>> -> Ok("WRQ")
      [] code = <<0, 3>> -> Ok("DAT")
      [] code = <<0, 4>> -> Ok("ACK")
      [] code = <<0, 5>> -> Ok("ERR")
      [] code = <<0, 6>> -> Ok("OCK")
      [] OTHER -> Raise("ValueError")

\* n.to_bytes(2, byteorder='big')
pack_short(n) == <<(n \div 256) % 256, n % 256>>
\* to_bytes(2, ...) raises OverflowError outside 0..65535
InShort(n) == n >= 0 /\ n < ShortMod

\* int.from_bytes(data, byteorder='big'), data of any length
RECURSIVE unpack_short(_)
unpack_short(data) ==
    IF data = <<>> THEN 0
    ELSE data[Len(data)] + 256 * unpack_short(SubSeq(data, 1, Len(data) - 1))

RECURSIVE DecimalDigits(_)
DecimalDigits(n) ==
    IF n < 10 THEN <<48 + n>> ELSE Append(DecimalDigits(n \div 10), 48 + (n % 10))

\* _to_bytes: bytes as they are, anything else str(other).encode('ascii')
to_bytes(other) ==
    IF other.ty \in {"bytes", "str"} THEN other.v
    ELSE IF other.v[1] < 0 THEN <<45>> \o DecimalDigits(0 - other.v[1])
    ELSE DecimalDigits(other.v[1])

RECURSIVE OptItems(_)
OptItems(options) ==
    IF options = <<>> THEN <<>>
    ELSE <<to_bytes(Head(options)[1]), to_bytes(Head(options)[2])>> \o OptItems(Tail(options))

serialize_options(options) == Join(<<NUL>>, OptItems(options))

\* packet.encode() of each class; a bytes message has no .encode (AttributeError),
\* a bytes filename or mode is refused by bytes(x, 'ascii') (TypeError)
encode(p) ==
    CASE p.type \in {"ACK", "DAT"} /\ ~InShort(p.block_no.v[1]) -> Raise("OverflowError")
      [] p.type = "ERR" /\ ~InShort(p.code.v[1]) -> Raise("OverflowError")
      [] p.type = "ACK" -> Ok(PacketTypes_encode(p.type) \o pack_short(p.block_no.v[1]))
      [] p.type = "DAT" ->
            Ok(PacketTypes_encode(p.type) \o pack_short(p.block_no.v[1]) \o p.data.v)
      [] p.type = "ERR" ->
            IF p.message.ty # "str" THEN Raise("AttributeError")
            ELSE Ok(PacketTypes_encode(p.type) \o pack_short(p.code.v[1])
                    \o p.message.v \o <<NUL>>)
      [] p.type = "OCK" ->
            Ok(PacketTypes_encode(p.type) \o serialize_options(p.options) \o <<NUL>>)
      [] OTHER ->
            IF p.fname.ty # "str" \/ p.mode.ty # "str" THEN Raise("TypeError")
            ELSE Ok(Join(<<NUL>>, NonEmpty(<<PacketTypes_encode(p.type) \o p.fname.v,
                                             p.mode.v, serialize_options(p.options)>>))
                    \o <<NUL>>)

\* TFTPPacketFactory.decode of a factory with the given supported options
decode(data, supported) ==
    LET type_ == PacketTypes_decode(Take(data, 2)) IN
    IF ~type_.ok THEN type_
    ELSE CASE type_.val \in {"RRQ", "WRQ"} ->
                LET r == parse_request(Drop(data, 2)) IN
                IF ~r.ok THEN r
                ELSE LET e == ensure_request(r.val.fname, r.val.mode, r.val.options, supported)
                     IN Ok(TFTPRequestPacket(type_.val, e.fname, e.mode, e.options))
           [] type_.val = "ACK" -> Ok(TFTPAckPacket(unpack_short(SubSeq(data, 3, Min(4, Len(data))))))
           [] type_.val = "DAT" ->
                Ok(TFTPDatPacket(unpack_short(SubSeq(data, 3, Min(4, Len(data)))),
                                 PyBytes(Drop(data, 4))))
           [] type_.val = "ERR" ->
                Ok(Packet("ERR", None, None, <<>>, None, None,
                          PyInt(unpack_short(SubSeq(data, 3, Min(4, Len(data))))),
                          PyBytes(Drop(data, 4))))
           [] OTHER ->
                LET r == parse_request(Drop(data, 2)) IN
                IF ~r.ok THEN r
                ELSE LET e == ensure_request(r.val.fname, r.val.mode, r.val.options, supported)
                     IN Ok(TFTPOckPacket(e.options))

\* ------------------------------------------------------------------------
\* State
\* ------------------------------------------------------------------------
VARIABLES
    cPacket,      \* codec: the packet object handed to encode
    cSupported,   \* codec: the supported options of the decoding factory
    cWire,        \* codec: the result of encode
    cDecoded,     \* codec: the result of decode on the encoded bytes
    cStep,        \* codec: "new", "encoded", "decoded"
    direction,    \* session class: "RRQ" (RRQProtocolFactory) or "WRQ" (WRQProtocolFactory)
    windowsize,   \* _default_options.windowsize of the session
    openOutcome,  \* what opening the session's file does: "ok" or the exception raised
    fileSize,     \* size in bytes of the file a read session serves
    request,      \* the request datagram the session was constructed with
    packet,       \* _packet: <<the decoded request>>, or the list the windowed handler assigns to it
    r_options,    \* _r_options
    started,      \* connection_made has run
    transport,    \* _transport: "open", "closing" (close() called), "closed" (connection_lost run)
    counter,      \* _counter
    packets,      \* _packets: the window list
    file_handler, \* _file_handler: "None", "FileReader" or "FileWriter"
    filePos,      \* read position of the FileReader's file
    finished,     \* _file_handler._finished
    fileClosed,   \* _file_handler._file.closed
    written,      \* the payloads written to the FileWriter's file, in order
    retransmits,  \* bag of the packets of the pending (armed, not fired, not cancelled) retransmit timers
    retransmitter,\* the packet of the handle in _retransmitter while it is pending, else NoPacket
    idleTimers,   \* bag of the callbacks of the pending idle timers
    connection_timeout_timer, \* the callback of the handle in _connection_timeout_timer while it is pending, else "None"
    sent,         \* every datagram handed to transport.sendto: [pkt, addr]
    lastEvent,    \* the handler that produced the current state
    uKey,         \* validators: the option name whose validator is called
    uValue,       \* validators: the value handed to it
    uResult,      \* validators: what the call returned or raised
    uStep,        \* validators: "new", "called"
    nNL,          \* netascii: NL, os.linesep of the platform
    nSource,      \* netascii: the local bytes S that are encoded
    nPos,         \* netascii: read position in the encoder's file
    nReadBuffer,  \* netascii: _buffer of the encoding NETASCII object
    nStream,      \* netascii: the encoded bytes not yet handed to write
    nBuffer,      \* netascii: _buffer of the decoding NETASCII object
    nFile,        \* netascii: the bytes written to _file_handle, in order
    nStep,        \* netascii: "new", "reading", "encoded"
    dReceived,    \* dispatcher: the datagrams received on the listening socket: [data, addr]
    dTasks,       \* dispatcher: the endpoint creations submitted with create_task, not yet run
    dSessions,    \* dispatcher: the sessions created, each with its socket
    dSent         \* dispatcher: every datagram handed to sendto of the listening transport

codecVars == <<cPacket, cSupported, cWire, cDecoded, cStep>>

sessionVars ==
    <<direction, windowsize, openOutcome, fileSize, request, packet, r_options, started, transport,
      counter, packets, file_handler, filePos, finished, fileClosed, written, retransmits,
      retransmitter, idleTimers, connection_timeout_timer, sent, lastEvent>>

utilVars == <<uKey, uValue, uResult, uStep>>

netasciiVars == <<nNL, nSource, nPos, nReadBuffer, nStream, nBuffer, nFile, nStep>>

serverVars == <<dReceived, dTasks, dSessions, dSent>>

vars == <<codecVars, sessionVars, utilVars, netasciiVars, serverVars>>

\* ------------------------------------------------------------------------
\* Session: constants and bounds
\* ------------------------------------------------------------------------
\* DefaultOptions
DefaultBlksize == 512
DefaultWindowsize == 1
\* len(opcode) and len(pack_short(..)) in an encoded Data packet
OpcodeLen == 2
ShortLen == 2

\* the windowsize of a session whose DefaultOptions asks for a window
WindowSize == 4
\* the port of the session's peer (_remote_addr[1]) and another port
PeerPort == 1
ForeignPort == 2
\* the largest block number of the Acks and of the Data packets a peer sends
MaxAck == 6
MaxData == 3
\* no handler sends once this many datagrams were sent
MaxSent == 6

\* sizes of the files served by read sessions
FileSizes == {0, 488, 1000, 1024, 2000, 3000, 5000}
\* (tag, length) of the payloads of the Data packets a peer sends
PeerPayloads == { <<1, 0>>, <<1, 507>>, <<1, 508>>, <<1, 511>>, <<1, 512>>, <<2, 512>> }

\* file[off : off + len] of the served file, and a peer's payload
FileBytes(off, len) == [ty |-> "filebytes", v |-> <<off, len>>]
PeerBytes(tag, len) == [ty |-> "peerbytes", v |-> <<tag, len>>]
\* len(data)
PayloadLen(data) == IF data.ty = "bytes" THEN Len(data.v) ELSE data.v[2]

\* None in the window list
NoPacket == Packet("None", None, None, <<>>, None, None, None, None)

\* BaseTFTPPacket.get_size: len(self.encode())
get_size(p) ==
    CASE p.type = "DAT" -> OpcodeLen + ShortLen + PayloadLen(p.data)
      [] p.type = "ACK" -> OpcodeLen + ShortLen
      [] OTHER -> Len(encode(p).val)

\* a sequence test that accepts every block number
is_correct_sequence_any(p, expected_block_no) == p.block_no.v[1] = p.block_no.v[1]

\* BaseTFTPPacket.is_correct_sequence
is_correct_sequence(p, expected_block_no) == expected_block_no = p.block_no.v[1]
is_ack(p) == p.type = "ACK"
is_data(p) == p.type = "DAT"
is_err(p) == p.type = "ERR"

\* ------------------------------------------------------------------------
\* Session: the object's state as a record, and the methods as operators on it
\* ------------------------------------------------------------------------
Self ==
    [counter |-> counter, packets |-> packets, packet |-> packet, r_options |-> r_options,
     transport |-> transport, file_handler |-> file_handler, filePos |-> filePos,
     finished |-> finished, fileClosed |-> fileClosed, written |-> written,
     retransmits |-> retransmits, retransmitter |-> retransmitter,
     idleTimers |-> idleTimers, connection_timeout_timer |-> connection_timeout_timer,
     sent |-> sent]

Becomes(S) ==
    /\ counter' = S.counter
    /\ packets' = S.packets
    /\ packet' = S.packet
    /\ r_options' = S.r_options
    /\ transport' = S.transport
    /\ file_handler' = S.file_handler
    /\ filePos' = S.filePos
    /\ finished' = S.finished
    /\ fileClosed' = S.fileClosed
    /\ written' = S.written
    /\ retransmits' = S.retransmits
    /\ retransmitter' = S.retransmitter
    /\ idleTimers' = S.idleTimers
    /\ connection_timeout_timer' = S.connection_timeout_timer
    /\ sent' = S.sent

Event(kind, p, addr) ==
    [kind |-> kind, type |-> p.type, block_no |-> p.block_no, data |-> p.data, addr |-> addr]

\* transport.sendto(data, addr): nothing leaves a socket that is closed
sendto(S, p, addr) ==
    IF S.transport = "closed" THEN S
    ELSE [S EXCEPT !.sent = Append(@, [pkt |-> p, addr |-> addr])]

\* transport.close()
close(S) == [S EXCEPT !.transport = IF @ = "open" THEN "closing" ELSE @]

\* a _send_packet that arms two timers for the packet it sends
send_packet_twice_armed(S, p) ==
    [sendto(S, p, PeerPort) EXCEPT !.retransmits = @ (+) SetToBag({p}) (+) SetToBag({p}),
                                   !.retransmitter = p]

\* _send_packet: send to the peer, arm a retransmit timer for the packet and
\* keep its handle in _retransmitter (and in _retransmitters when windowed)
send_packet(S, p) ==
    [sendto(S, p, PeerPort) EXCEPT !.retransmits = @ (+) SetToBag({p}), !.retransmitter = p]

\* a reset_retransmitters that cancels nothing
reset_retransmitters_none(S) == S

\* reset_retransmitters: windowed, cancel every handle of the list; otherwise
\* cancel the handle in _retransmitter
reset_retransmitters(S) ==
    IF windowsize > 1
    THEN [S EXCEPT !.retransmits = EmptyBag, !.retransmitter = NoPacket]
    ELSE IF S.retransmitter # NoPacket
         THEN [S EXCEPT !.retransmits = @ (-) SetToBag({S.retransmitter}),
                        !.retransmitter = NoPacket]
         ELSE S

\* a reset_connection that leaves the idle timer armed
reset_connection_keeps_idle(S) == reset_retransmitters(S)

\* reset_connection
reset_connection(S) ==
    LET S1 == reset_retransmitters(S) IN
    IF S1.connection_timeout_timer # "None"
    THEN [S1 EXCEPT !.idleTimers = @ (-) SetToBag({S1.connection_timeout_timer}),
                    !.connection_timeout_timer = "None"]
    ELSE S1

\* _reset_connection_timeout
reset_connection_timeout(S) ==
    [reset_connection(S) EXCEPT !.idleTimers = @ (+) SetToBag({"connection_timed_out"}),
                                !.connection_timeout_timer = "connection_timed_out"]

\* connection_timed_out
connection_timed_out(S) == close(reset_retransmitters(S))

\* _start_transmission
start_transmission(S, p) ==
    [send_packet(S, p) EXCEPT !.idleTimers = @ (+) SetToBag({"reset_connection"}),
                              !.connection_timeout_timer = "reset_connection"]

\* is_correct_tid: the verdict, and the object after the Error sent to a foreign port
is_correct_tid(addr) == PeerPort = addr
after_is_correct_tid(S, addr) ==
    IF PeerPort = addr THEN S ELSE sendto(S, create_err_unknown_tid, addr)

\* FileReader.read (on an object that is not finished): the chunk and the object after
read_len(S) == Min(DefaultBlksize, fileSize - S.filePos)
read_data(S) == FileBytes(S.filePos, read_len(S))
after_read(S) ==
    LET n == read_len(S) IN
    [S EXCEPT !.filePos = @ + n,
              !.finished = (n = 0 \/ (DefaultBlksize > 0 /\ n < DefaultBlksize)),
              !.fileClosed = (n = 0 \/ (DefaultBlksize > 0 /\ n < DefaultBlksize))]

\* FileWriter.write (on an open file): the object after
after_write(S, data) ==
    [S EXCEPT !.written = Append(@, data),
              !.fileClosed = (PayloadLen(data) = 0 \/ PayloadLen(data) < DefaultBlksize)]

\* a dict or an int as a condition
Truthy(x) == IF x.ty = "int" THEN x.v[1] # 0 ELSE x.v # <<>>
Dict(items) == [ty |-> "dict", v |-> items]

ErrorFor(exc) ==
    CASE exc = "FileExistsError" -> create_err_file_exists
      [] exc = "FileNotFoundError" -> create_err_file_404
      [] OTHER -> create_err_access_violation

\* _next_datagram of the read session: the packet (reading the next chunk)
\* and the object after
rrq_next_datagram(S) == TFTPDatPacket(S.counter, read_data(S))
\* _next_datagram of the write session
wrq_next_datagram(S) == TFTPAckPacket(S.counter)

\* _start_communication: _set_protocol_attrs, _open_file_handler, the first
\* packet (or the Error for the exception of the open), _start_transmission
start_communication(S) ==
    LET S0 == [S EXCEPT !.r_options = Dict(S.packet[1].options),
                        !.counter = IF direction = "RRQ" THEN 1 ELSE 0]
    IN
    IF openOutcome # "ok" THEN start_transmission(S0, ErrorFor(openOutcome))
    ELSE
    LET S1 == [S0 EXCEPT
                 !.file_handler = IF direction = "RRQ" THEN "FileReader" ELSE "FileWriter",
                 !.r_options = IF direction = "RRQ" /\ PyStr(S_tsize) \in DictKeys(@.v)
                               THEN PyInt(fileSize) ELSE @,
                 !.packets = IF direction = "RRQ" /\ windowsize > 1
                             THEN [i \in 1..windowsize |-> NoPacket] ELSE @]
    IN
    IF Truthy(S1.r_options)
    THEN IF S1.r_options.ty = "int"
         THEN [S1 EXCEPT !.counter = 0]   \* serialize_options(int): AttributeError, nothing sent
         ELSE start_transmission([S1 EXCEPT !.counter = 0], TFTPOckPacket(S1.r_options.v))
    ELSE IF direction = "RRQ"
         THEN start_transmission(after_read(S1), rrq_next_datagram(S1))
         ELSE start_transmission(S1, wrq_next_datagram(S1))

\* RRQProtocolFactory._datagram_received_default
datagram_received_default(S, p, addr) ==
    LET S1 == after_is_correct_tid(S, addr) IN
    IF is_correct_tid(addr) /\ is_err(p) THEN S1
    ELSE
    LET S2 == after_is_correct_tid(S1, addr) IN
    IF is_correct_tid(addr) /\ is_ack(p) /\ is_correct_sequence(p, S.counter)
    THEN LET S3 == reset_connection_timeout(S2) IN
         IF S3.file_handler = "None" THEN S3   \* AttributeError on None._finished
         ELSE IF S3.finished THEN close(S3)
         ELSE LET S4 == [S3 EXCEPT !.counter = (@ + 1) % ShortMod]
              IN send_packet(after_read(S4), rrq_next_datagram(S4))
    ELSE S2

\* _is_packet_in_windowsize
is_packet_in_windowsize(S, p, w) ==
    p.block_no.v[1] > (S.counter - w) /\ p.block_no.v[1] <= S.counter

\* self._packets[-i:]
LastOf(list, i) == IF i = 0 THEN list ELSE SubSeq(list, Len(list) - i + 1, Len(list))

\* for i in range(next_packet_id): ... of _datagram_received_windowsize
RECURSIVE FillWindow(_, _, _)
FillWindow(S, i, next_packet_id) ==
    IF i >= next_packet_id THEN S
    ELSE IF S.finished THEN [S EXCEPT !.packet = LastOf(S.packets, i)]
    ELSE LET S1 == [S EXCEPT !.packets = Tail(@), !.counter = (@ + 1) % ShortMod]
             S2 == [after_read(S1) EXCEPT !.packets = Append(@, rrq_next_datagram(S1))]
         IN FillWindow(S2, i + 1, next_packet_id)

\* for packet in self._packets: self._send_packet(packet.encode()); None has no encode
RECURSIVE SendWindow(_, _)
SendWindow(S, list) ==
    IF list = <<>> THEN S
    ELSE IF Head(list) = NoPacket THEN S   \* AttributeError
    ELSE SendWindow(send_packet(S, Head(list)), Tail(list))

\* RRQProtocolFactory._datagram_received_windowsize
datagram_received_windowsize(S, p, addr, w) ==
    LET S1 == after_is_correct_tid(S, addr) IN
    IF is_correct_tid(addr) /\ is_err(p) THEN S1
    ELSE
    LET S2 == after_is_correct_tid(S1, addr) IN
    IF is_correct_tid(addr) /\ is_ack(p) /\ is_packet_in_windowsize(S, p, w)
    THEN LET S3 == reset_connection_timeout(S2) IN
         IF S3.file_handler = "None" THEN
              \* AttributeError on None._finished, in the partial branch after the counter moved
              IF is_correct_sequence(p, S3.counter) THEN S3
              ELSE [S3 EXCEPT !.counter = @ + 1 - (w - (@ - p.block_no.v[1]))]
         ELSE IF is_correct_sequence(p, S3.counter) /\ S3.finished THEN close(S3)
         ELSE LET next_packet_id ==
                      IF is_correct_sequence(p, S3.counter) THEN w
                      ELSE w - (S3.counter - p.block_no.v[1])
                  S4 == IF is_correct_sequence(p, S3.counter) THEN S3
                        ELSE [S3 EXCEPT !.counter = @ + 1 - next_packet_id]
                  S5 == FillWindow(S4, 0, next_packet_id)
              IN SendWindow(S5, S5.packets)
    ELSE S2

\* RRQProtocolFactory.datagram_received
rrq_datagram_received(S, p, addr) ==
    IF windowsize > 1 THEN datagram_received_windowsize(S, p, addr, windowsize)
    ELSE datagram_received_default(S, p, addr)

\* WRQProtocolFactory.datagram_received
wrq_datagram_received(S, p, addr) ==
    LET S1 == after_is_correct_tid(S, addr) IN
    IF is_correct_tid(addr) /\ is_data(p) /\ is_correct_sequence(p, (S.counter + 1) % ShortMod)
    THEN LET S2 == [reset_connection_timeout(S1) EXCEPT !.counter = (@ + 1) % ShortMod]
             S3 == send_packet(S2, wrq_next_datagram(S2))
         IN IF S3.file_handler = "None" THEN S3   \* AttributeError on None.write
            ELSE IF S3.fileClosed THEN S3         \* ValueError: write to a closed file
            ELSE LET S4 == after_write(S3, p.data) IN
                 IF get_size(p) < DefaultBlksize THEN close(reset_retransmitters(S4))
                 ELSE S4
    ELSE S1

\* ------------------------------------------------------------------------
\* Session: initial state and the handlers as actions
\* ------------------------------------------------------------------------
\* request datagrams: without options, and asking for blksize (a value that
\* ensure_blksize clamps to its upper bound), tsize and windowsize
RequestOptions ==
    { <<>>,
      << <<PyStr(S_blksize), PyInt(BlksizeUpperBound + 1)>>, <<PyStr(S_tsize), PyInt(0)>>,
         <<PyStr(S_windowsize), PyInt(4)>> >> }
RequestDatagram(type, options) ==
    encode(TFTPRequestPacket(type, PyStr(S_f), PyBytes(S_octet), options)).val

NoEvent == Event("none", NoPacket, 0)

\* the datagrams that reach the session's socket, as decode returns them
\* (a read session's peer sends Acks, a write session's peer Data; each also
\* sends one packet of the other kind and an Error)
PeerError == Packet("ERR", None, None, <<>>, None, None, PyInt(0), PyBytes(<<NUL>>))
PeerDatagrams ==
    IF direction = "RRQ"
    THEN { TFTPAckPacket(b) : b \in 0..MaxAck }
         \cup { TFTPDatPacket(1, PeerBytes(1, 512)), PeerError }
    ELSE { TFTPDatPacket(b, PeerBytes(d[1], d[2])) : b \in 0..MaxData, d \in PeerPayloads }
         \cup { TFTPAckPacket(1), PeerError }
ForeignDatagrams == { TFTPAckPacket(1), TFTPDatPacket(1, PeerBytes(1, 512)), PeerError }

\* BaseProtocolFactory.__init__
SessionInit ==
    /\ direction \in {"RRQ", "WRQ"}
    /\ windowsize \in {DefaultWindowsize, WindowSize}
    /\ direction = "WRQ" => windowsize = DefaultWindowsize
    /\ openOutcome \in {"ok", "FileNotFoundError", "FileExistsError", "PermissionError"}
    /\ direction = "RRQ" => openOutcome # "FileExistsError"   \* only open('xb') raises it
    /\ fileSize \in FileSizes
    /\ (direction = "WRQ" \/ openOutcome # "ok") => fileSize = 0
    /\ \E o \in RequestOptions : request = RequestDatagram(direction, o)
    /\ packet = <<decode(request, SupportedOptions).val>>
    /\ r_options = Dict(<<>>)
    /\ started = FALSE
    /\ transport = "open"
    /\ counter = 0
    /\ packets = <<>>
    /\ file_handler = "None"
    /\ filePos = 0
    /\ finished = FALSE
    /\ fileClosed = FALSE
    /\ written = <<>>
    /\ retransmits = EmptyBag
    /\ retransmitter = NoPacket
    /\ idleTimers = EmptyBag
    /\ connection_timeout_timer = "None"
    /\ sent = <<>>
    /\ lastEvent = NoEvent

\* the session of a run of the codec alone
SessionIdle ==
    /\ direction = "RRQ"
    /\ windowsize = DefaultWindowsize
    /\ openOutcome = "ok"
    /\ fileSize = 0
    /\ request = <<>>
    /\ packet = <<NoPacket>>
    /\ r_options = Dict(<<>>)
    /\ started = FALSE
    /\ transport = "open"
    /\ counter = 0
    /\ packets = <<>>
    /\ file_handler = "None"
    /\ filePos = 0
    /\ finished = FALSE
    /\ fileClosed = FALSE
    /\ written = <<>>
    /\ retransmits = EmptyBag
    /\ retransmitter = NoPacket
    /\ idleTimers = EmptyBag
    /\ connection_timeout_timer = "None"
    /\ sent = <<>>
    /\ lastEvent = NoEvent

\* no validator call and no NETASCII object in a run of the sessions or the codec
UtilIdle ==
    /\ uKey = None
    /\ uValue = None
    /\ uResult = Raise("none")
    /\ uStep = "idle"

\* no dispatcher in a run of a single session, the codec or the utilities
ServerIdle ==
    /\ dReceived = <<>>
    /\ dTasks = {}
    /\ dSessions = {}
    /\ dSent = <<>>

NetasciiIdle ==
    /\ nNL = <<>>
    /\ nSource = <<>>
    /\ nPos = 0
    /\ nReadBuffer = <<>>
    /\ nStream = <<>>
    /\ nBuffer = <<>>
    /\ nFile = <<>>
    /\ nStep = "idle"

CodecIdle ==
    /\ cPacket = NoPacket
    /\ cSupported = NoSupportedOptions
    /\ cWire = Raise("none")
    /\ cDecoded = Raise("none")
    /\ cStep = "idle"

Fixed ==
    UNCHANGED <<codecVars, utilVars, netasciiVars, serverVars, direction, windowsize, openOutcome, fileSize, request>>

\* connection_made
ConnectionMade ==
    /\ ~started
    /\ started' = TRUE
    /\ Becomes(start_communication(Self))
    /\ lastEvent' = Event("connection_made", NoPacket, 0)
    /\ Fixed

\* datagram_received with a datagram from the peer's port
DatagramReceived ==
    /\ started /\ transport = "open" /\ Len(sent) < MaxSent
    /\ \E p \in PeerDatagrams :
          /\ Becomes(IF direction = "RRQ" THEN rrq_datagram_received(Self, p, PeerPort)
                     ELSE wrq_datagram_received(Self, p, PeerPort))
          /\ lastEvent' = Event("datagram_received", p, PeerPort)
    /\ UNCHANGED started
    /\ Fixed

\* datagram_received with a datagram from another port
ForeignDatagramReceived ==
    /\ started /\ transport = "open" /\ Len(sent) < MaxSent
    /\ \E p \in ForeignDatagrams :
          /\ Becomes(IF direction = "RRQ" THEN rrq_datagram_received(Self, p, ForeignPort)
                     ELSE wrq_datagram_received(Self, p, ForeignPort))
          /\ lastEvent' = Event("datagram_received", p, ForeignPort)
    /\ UNCHANGED started
    /\ Fixed

\* a retransmit timer fires: the loop calls _send_packet(packet)
RetransmitTimerFires ==
    /\ Len(sent) < MaxSent
    /\ \E p \in BagToSet(retransmits) :
          LET S1 == [Self EXCEPT !.retransmits = @ (-) SetToBag({p})]
          IN /\ Becomes(send_packet(S1, p))
             /\ lastEvent' = Event("retransmit", p, PeerPort)
    /\ UNCHANGED started
    /\ Fixed

\* an idle timer fires: the loop calls the callback it was armed with
\* (reset_connection by _start_transmission, connection_timed_out by
\* _reset_connection_timeout)
ConnectionTimeoutTimerFires ==
    /\ \E cb \in BagToSet(idleTimers) :
          LET S1 == [Self EXCEPT
                       !.idleTimers = @ (-) SetToBag({cb}),
                       !.connection_timeout_timer =
                           IF CopiesIn(cb, idleTimers) = 1 /\ @ = cb THEN "None" ELSE @]
          IN Becomes(IF cb = "reset_connection" THEN reset_connection(S1)
                     ELSE connection_timed_out(S1))
    /\ lastEvent' = Event("idle_timeout", NoPacket, 0)
    /\ UNCHANGED started
    /\ Fixed

\* connection_lost, which the loop calls after transport.close()
ConnectionLost ==
    /\ transport = "closing"
    /\ Becomes([reset_connection(Self) EXCEPT !.transport = "closed"])
    /\ lastEvent' = Event("connection_lost", NoPacket, 0)
    /\ UNCHANGED started
    /\ Fixed

\* error_received
ErrorReceived ==
    /\ started /\ transport = "open"
    /\ Becomes(close(reset_connection(Self)))
    /\ lastEvent' = Event("error_received", NoPacket, 0)
    /\ UNCHANGED started
    /\ Fixed

\* BaseFileIO.__del__: the file handler of a session that was torn down is
\* finalized at some moment that no handler of the session decides (when the
\* interpreter collects the object), and closes its file
FileHandlerFinalized ==
    /\ transport = "closed" /\ file_handler # "None" /\ ~fileClosed
    /\ Becomes([Self EXCEPT !.fileClosed = TRUE])
    /\ lastEvent' = Event("finalized", NoPacket, 0)
    /\ UNCHANGED started
    /\ Fixed

SessionNext ==
    \/ ConnectionMade
    \/ DatagramReceived
    \/ ForeignDatagramReceived
    \/ RetransmitTimerFires
    \/ ConnectionTimeoutTimerFires
    \/ ConnectionLost
    \/ ErrorReceived
    \/ FileHandlerFinalized

Init == SessionInit /\ CodecIdle /\ UtilIdle /\ NetasciiIdle /\ ServerIdle
Next == SessionNext
Spec == Init /\ [][Next]_vars

\* ------------------------------------------------------------------------
\* Vocabulary of the session claims
\* ------------------------------------------------------------------------
\* the datagrams the step handed to sendto
NewlySent == SubSeq(sent', Len(sent) + 1, Len(sent'))
SentPackets(log, addr) == {log[i].pkt : i \in {j \in 1..Len(log) : log[j].addr = addr}}
\* the n-th blksize-sized chunk of the served file (n >= 1)
Chunk(n) == FileBytes((n - 1) * DefaultBlksize,
                      Max(0, Min(DefaultBlksize, fileSize - (n - 1) * DefaultBlksize)))
\* the step is datagram_received with packet type t, block b, from port a
Handles(t, b, a) ==
    /\ lastEvent'.kind = "datagram_received"
    /\ lastEvent'.type = t
    /\ lastEvent'.block_no = PyInt(b)
    /\ lastEvent'.addr = a
StopAndWaitRead == direction = "RRQ" /\ windowsize = 1 /\ openOutcome = "ok"

\* ------------------------------------------------------------------------
\* C1: stop-and-wait read transfer
\* ------------------------------------------------------------------------
\* the first datagram of the session is Data(1) with the first chunk, and every
\* Data packet sent carries its block's chunk of the file
C1_FirstIsData1 ==
    (StopAndWaitRead /\ sent # <<>>)
    => /\ sent[1] = [pkt |-> TFTPDatPacket(1, Chunk(1)), addr |-> PeerPort]
       /\ \A q \in SentPackets(sent, PeerPort) :
             q.type = "DAT" /\ q = TFTPDatPacket(q.block_no.v[1], Chunk(q.block_no.v[1]))
       /\ (fileSize = 1000 =>
             SentPackets(sent, PeerPort)
                \subseteq {TFTPDatPacket(1, FileBytes(0, 512)), TFTPDatPacket(2, FileBytes(512, 488))})

\* a Data block that was not sent before is sent only by the step that handles
\* the peer's Ack of the current block, and is the block after it; the step that
\* handles the Ack of a short block closes the transport and sends nothing; a
\* session that is no longer open sends nothing
C1_Step ==
    (StopAndWaitRead /\ started)
    => /\ \A i \in 1..Len(NewlySent) :
             LET m == NewlySent[i] IN
             (m.addr = PeerPort /\ m.pkt \notin SentPackets(sent, PeerPort))
             => /\ Handles("ACK", counter, PeerPort)
                /\ m.pkt = TFTPDatPacket(counter + 1, Chunk(counter + 1))
       /\ (Handles("ACK", counter, PeerPort) /\ transport = "open" /\ finished)
          => (transport' = "closing" /\ sent' = sent)
       /\ (Handles("ACK", counter, PeerPort) /\ transport = "open" /\ ~finished)
          => (transport' = "open" /\ counter' = counter + 1
              /\ NewlySent = <<[pkt |-> TFTPDatPacket(counter + 1, Chunk(counter + 1)),
                                addr |-> PeerPort]>>)
       /\ transport # "open" => sent' = sent

\* C1: in a read session without options and with windowsize 1 the server sends
\* Data(1) first, sends Data(k+1) only when the peer's Ack(k) of the current
\* block arrives, and on the Ack of a block shorter than blksize closes and
\* sends nothing more; a 1000-byte file goes out as Data(1, 512 bytes) and
\* Data(2, 488 bytes).
C1_StopAndWaitRead == []C1_FirstIsData1 /\ [][C1_Step]_vars

\* the 1000-byte transfer has completed: both blocks sent, Ack(2) handled, closed
C1_Witness ==
    /\ StopAndWaitRead /\ fileSize = 1000
    /\ transport = "closing"
    /\ lastEvent = Event("datagram_received", TFTPAckPacket(2), PeerPort)
    /\ SentPackets(sent, PeerPort)
         = {TFTPDatPacket(1, FileBytes(0, 512)), TFTPDatPacket(2, FileBytes(512, 488))}

\* ------------------------------------------------------------------------
\* C2: a failed open is answered by one Error and nothing else
\* ------------------------------------------------------------------------
SentTo(addr) == SelectSeq(sent, LAMBDA m : m.addr = addr)

\* C2 as claimed: when the file of the request cannot be opened the session
\* sends exactly one Error packet to the peer, no timer retransmits it and no
\* further packet follows.
C2_ExactlyOneError ==
    (started /\ openOutcome # "ok")
    => SentTo(PeerPort) = <<[pkt |-> ErrorFor(openOutcome), addr |-> PeerPort]>>

\* ------------------------------------------------------------------------
\* C3: a datagram from a foreign port
\* ------------------------------------------------------------------------
SessionFrame ==
    /\ counter' = counter
    /\ packets' = packets
    /\ filePos' = filePos /\ finished' = finished /\ fileClosed' = fileClosed
    /\ written' = written
    /\ retransmits' = retransmits /\ retransmitter' = retransmitter
    /\ idleTimers' = idleTimers /\ connection_timeout_timer' = connection_timeout_timer
    /\ transport' = transport

C3_Step ==
    (lastEvent'.kind = "datagram_received" /\ lastEvent'.addr = ForeignPort)
    => /\ NewlySent = <<[pkt |-> create_err_unknown_tid, addr |-> ForeignPort]>>
       /\ SessionFrame

\* C3 as claimed: a Data, Ack or Error datagram from a port other than the
\* session's TID is answered by a single Error(code=5) to that port, nothing is
\* sent to the peer, and counter, window, file position and timers are unchanged.
C3_ForeignTid == [][C3_Step]_vars

\* ------------------------------------------------------------------------
\* C4: the idle deadline
\* ------------------------------------------------------------------------
\* C4 as claimed: when the idle deadline has fired (also the one armed with the
\* session's first packet) every retransmit timer is cancelled and the session
\* has closed its socket.
C4_IdleTimeoutCloses ==
    lastEvent.kind = "idle_timeout"
    => (retransmits = EmptyBag /\ transport # "open")

\* ------------------------------------------------------------------------
\* C5, C6: the write session
\* ------------------------------------------------------------------------
WriteSession == direction = "WRQ" /\ openOutcome = "ok" /\ started

C5_Step ==
    (WriteSession /\ lastEvent'.kind = "datagram_received" /\ transport = "open")
    => /\ Len(written') = counter'
       /\ IF Handles("DAT", (counter + 1) % ShortMod, PeerPort)
          THEN /\ counter' = (counter + 1) % ShortMod
               /\ written' = Append(written, lastEvent'.data)
               /\ [pkt |-> TFTPAckPacket(counter'), addr |-> PeerPort]
                    \in {NewlySent[i] : i \in 1..Len(NewlySent)}
          ELSE /\ counter' = counter
               /\ written' = written
               /\ \A i \in 1..Len(NewlySent) : NewlySent[i].addr # PeerPort

\* C5 as claimed: a Data packet is accepted only from the peer and with block
\* number counter + 1; it is then written once and acknowledged; any other Data
\* packet changes nothing; so the file holds one payload per block 1..counter.
C5_WriteInSequence == [][C5_Step]_vars

C6_Step ==
    (WriteSession /\ transport = "open" /\ ~fileClosed
     /\ Handles("DAT", (counter + 1) % ShortMod, PeerPort))
    => IF PayloadLen(lastEvent'.data) < DefaultBlksize
       THEN /\ [pkt |-> TFTPAckPacket(counter'), addr |-> PeerPort]
                 \in {NewlySent[i] : i \in 1..Len(NewlySent)}
            /\ fileClosed'
            /\ transport' = "closing"
       ELSE /\ ~fileClosed'
            /\ transport' = "open"

\* C6 as claimed: an in-sequence Data packet with a payload of 0..blksize-1
\* bytes is acknowledged, closes the file and closes the session; one of exactly
\* blksize bytes does not.
C6_ShortDataCompletes == [][C6_Step]_vars

\* ------------------------------------------------------------------------
\* C7, C8, C9: the windowed read session
\* ------------------------------------------------------------------------
WindowedRead == direction = "RRQ" /\ windowsize > 1 /\ openOutcome = "ok" /\ started
\* number of Data blocks of the served file (the last one is short)
NumBlocks == (fileSize \div DefaultBlksize) + 1
DataBlocks(from, to) == [i \in 1..(to - from + 1) |->
                            [pkt |-> TFTPDatPacket(from + i - 1, Chunk(from + i - 1)),
                             addr |-> PeerPort]]
\* the window list holds the windowsize blocks up to the counter, each with its chunk
WindowInFlight ==
    /\ counter >= windowsize
    /\ packets = [i \in 1..windowsize |->
                    TFTPDatPacket(counter - windowsize + i, Chunk(counter - windowsize + i))]

C8_Step ==
    (WindowedRead /\ transport = "open" /\ ~finished /\ WindowInFlight
     /\ Handles("ACK", counter, PeerPort))
    => LET n == Min(windowsize, NumBlocks - counter) IN
       /\ counter' = counter + n
       /\ NewlySent = DataBlocks(counter + 1, counter + n)
       /\ retransmits' = SetToBag({NewlySent[i].pkt : i \in 1..Len(NewlySent)})

C9_Step ==
    (WindowedRead /\ transport = "open" /\ WindowInFlight
     /\ \E a \in (counter - windowsize + 1)..(counter - 1) : Handles("ACK", a, PeerPort))
    => LET a == lastEvent'.block_no.v[1] IN
       NewlySent = DataBlocks(a + 1, counter)

OptionDicts ==
    { <<>>,
      << <<PyStr(S_blksize), PyInt(1024)>> >>,
      << <<PyBytes(S_blksize), PyBytes(S_1024)>> >>,
      << <<PyBytes(S_tsize), PyBytes(S_0)>> >>,
      << <<PyStr(S_tsize), PyInt(0)>>, <<PyStr(S_windowsize), PyInt(4)>> >> }

DataPayloads == { <<>>, <<1>>, <<0, 13, 10>> }
BlockNumbers == { 0, 1, 255, 256, 65535 }

ValidPackets ==
    { TFTPRequestPacket(t, PyStr(f), PyBytes(m), o) :
        t \in {"RRQ", "WRQ"}, f \in {S_f, S_fg}, m \in {S_octet, S_netascii}, o \in OptionDicts }
    \cup { TFTPDatPacket(b, PyBytes(d)) : b \in BlockNumbers, d \in DataPayloads }
    \cup { TFTPAckPacket(b) : b \in BlockNumbers }
    \cup { TFTPErrPacket(c, PyStr(m)) : c \in 0..7, m \in {S_FileNotFound, S_UnknownTid} }
    \cup { TFTPOckPacket(o) : o \in OptionDicts }

CodecInit ==
    /\ cPacket \in ValidPackets
    /\ cSupported \in {SupportedOptions, NoSupportedOptions}
    /\ cWire = Raise("none")
    /\ cDecoded = Raise("none")
    /\ cStep = "new"

CodecEncode ==
    /\ cStep = "new"
    /\ cWire' = encode(cPacket)
    /\ cStep' = "encoded"
    /\ UNCHANGED <<cPacket, cSupported, cDecoded, sessionVars, utilVars, netasciiVars, serverVars>>

CodecDecode ==
    /\ cStep = "encoded"
    /\ cWire.ok
    /\ cDecoded' = decode(cWire.val, cSupported)
    /\ cStep' = "decoded"
    /\ UNCHANGED <<cPacket, cSupported, cWire, sessionVars, utilVars, netasciiVars, serverVars>>

CodecNext == CodecEncode \/ CodecDecode

InitCodec == CodecInit /\ SessionIdle /\ UtilIdle /\ NetasciiIdle /\ ServerIdle
SpecCodec == InitCodec /\ [][CodecNext]_vars

\* ------------------------------------------------------------------------
\* C10: decode(encode(P)) = P for every valid packet P of the six variants
\* ------------------------------------------------------------------------
\* C10 as claimed: whenever the encoded bytes of a valid packet have been
\* decoded, the result is a packet equal to the original, field by field.
C10_RoundTrip ==
    cStep = "decoded" => (cDecoded.ok /\ cDecoded.val = cPacket)

\* The variants for which the round trip does hold in the code: Data, Ack and
\* requests without options.
C10_RoundTripDataAckPlainRequest ==
    (cStep = "decoded"
     /\ (cPacket.type \in {"DAT", "ACK"}
         \/ (cPacket.type \in {"RRQ", "WRQ"} /\ cPacket.options = <<>>)))
    => (cDecoded.ok /\ cDecoded.val = cPacket)

\* ------------------------------------------------------------------------
\* Decoding arbitrary datagrams
\* ------------------------------------------------------------------------
\* byte values of the datagrams: NUL, the opcodes' low bytes 1 (RRQ), 3 (DAT)
\* and 4 (ACK), 7 (no opcode) and the letter f
WireBytes == {0, 1, 3, 4, 7, 102}
MaxDatagramLen == 4
\* every datagram of up to MaxDatagramLen bytes, and requests with options
Datagrams ==
    UNION { [1..n -> WireBytes] : n \in 0..MaxDatagramLen }
    \cup { RequestDatagram(t, o) \o tail :
             t \in {"RRQ", "WRQ"}, o \in RequestOptions,
             tail \in {<<>>, S_blksize \o <<NUL>>, S_blksize \o <<NUL>> \o S_1024 \o <<NUL>>} }

InitDecode ==
    /\ cPacket = NoPacket
    /\ cSupported \in {SupportedOptions, NoSupportedOptions}
    /\ cWire \in {Ok(d) : d \in Datagrams}
    /\ cDecoded = Raise("none")
    /\ cStep = "encoded"
    /\ SessionIdle /\ UtilIdle /\ NetasciiIdle /\ ServerIdle

SpecDecode == InitDecode /\ [][CodecDecode]_vars

\* ------------------------------------------------------------------------
\* C11: decode rejects malformed datagrams
\* ------------------------------------------------------------------------
OpcodeOf(d) == PacketTypes_decode(Take(d, 2))
TruncatedOpcode(d) == Len(d) < 2
UnknownOpcode(d) == Len(d) >= 2 /\ ~OpcodeOf(d).ok
\* a request with filename and mode followed by an odd number of fields
DanglingOption(d) ==
    /\ Len(d) >= 2 /\ OpcodeOf(d).ok /\ OpcodeOf(d).val \in {"RRQ", "WRQ"}
    /\ LET fields == NonEmpty(SplitNul(Drop(d, 2), <<>>))
       IN Len(fields) >= 2 /\ (Len(fields) - 2) % 2 = 1
\* a Data or Ack datagram with fewer than two bytes of block number
TruncatedBlockNo(d) ==
    /\ Len(d) >= 2 /\ OpcodeOf(d).ok /\ OpcodeOf(d).val \in {"DAT", "ACK"}
    /\ Len(d) < OpcodeLen + ShortLen

\* C11 as claimed: decode of a datagram with a truncated opcode, an unknown
\* opcode, a dangling option name or a truncated block number raises and
\* returns no packet.
C11_MalformedRejected ==
    (cStep = "decoded"
     /\ (TruncatedOpcode(cWire.val) \/ UnknownOpcode(cWire.val)
         \/ DanglingOption(cWire.val) \/ TruncatedBlockNo(cWire.val)))
    => ~cDecoded.ok

\* The part of C11 the code does implement: a truncated or unknown opcode
\* makes decode raise (a ValueError).
C11_BadOpcodeRejected ==
    (cStep = "decoded" /\ (TruncatedOpcode(cWire.val) \/ UnknownOpcode(cWire.val)))
    => (~cDecoded.ok /\ cDecoded.exc = "ValueError")

\* ------------------------------------------------------------------------
\* Calling the option validators
\* ------------------------------------------------------------------------
\* the integers handed to the validators: around each bound, and in between
ValidatorInts ==
    (0 - 1)..10 \cup {254, 255, 256, 512, 1024}
    \cup (BlksizeUpperBound - 1)..(BlksizeUpperBound + 2)
    \cup (WindowsizeUpperBound - 1)..(WindowsizeUpperBound + 2)
ValidatorValues ==
    {PyInt(v) : v \in ValidatorInts} \cup {PyBytes(S_1024), PyBytes(S_0), PyBytes(S_f)}

InitUtil ==
    /\ uKey \in DictKeys(SupportedOptions)
    /\ uValue \in ValidatorValues
    /\ uResult = Raise("none")
    /\ uStep = "new"
    /\ SessionIdle /\ CodecIdle /\ NetasciiIdle /\ ServerIdle

\* supported_options[key](value), as ensure_request calls it
CallEnsure ==
    /\ uStep = "new"
    /\ uResult' = CallValidator(SupportedOptions, uKey, uValue)
    /\ uStep' = "called"
    /\ UNCHANGED <<uKey, uValue, codecVars, sessionVars, netasciiVars, serverVars>>

SpecUtil == InitUtil /\ [][CallEnsure]_vars

\* the contract of a validator with an exclusive lower and an inclusive upper
\* bound: reject at or below lower, clamp above upper, pass in between
BoundedContract(v, lower, upper, result) ==
    IF v > upper THEN result = Ok(PyInt(upper))
    ELSE IF v > lower THEN result = Ok(PyInt(v))
    ELSE ~result.ok

\* ------------------------------------------------------------------------
\* C12: ensure_blksize
\* ------------------------------------------------------------------------
\* C12 as claimed: ensure_blksize(v) is v for 8 < v <= 65464, 65464 for
\* v > 65464, and raises for v <= 8.
C12_EnsureBlksize ==
    (uStep = "called" /\ uKey = PyStr(S_blksize) /\ uValue.ty = "int")
    => BoundedContract(uValue.v[1], BlksizeLowerBound, BlksizeUpperBound, uResult)

\* What the code does: the clamp above 65464 is as claimed.
C12_ClampAbove ==
    (uStep = "called" /\ uKey = PyStr(S_blksize) /\ uValue.ty = "int"
     /\ uValue.v[1] > BlksizeUpperBound)
    => uResult = Ok(PyInt(BlksizeUpperBound))

\* ------------------------------------------------------------------------
\* C13: ensure_windowsize
\* ------------------------------------------------------------------------
\* C13 as claimed: ensure_windowsize(v) is v for 1 < v <= 65535, 65535 for
\* v > 65535, and raises for v <= 1.
C13_EnsureWindowsize ==
    (uStep = "called" /\ uKey = PyStr(S_windowsize) /\ uValue.ty = "int")
    => BoundedContract(uValue.v[1], WindowsizeLowerBound, WindowsizeUpperBound, uResult)

\* What the code does: the clamp above 65535 is as claimed.
C13_ClampAbove ==
    (uStep = "called" /\ uKey = PyStr(S_windowsize) /\ uValue.ty = "int"
     /\ uValue.v[1] > WindowsizeUpperBound)
    => uResult = Ok(PyInt(WindowsizeUpperBound))

\* ------------------------------------------------------------------------
\* netascii.py
\* ------------------------------------------------------------------------
CR == 13
LF == 10
CRLF == <<CR, LF>>
CRNUL == <<CR, NUL>>

StartsWith(data, prefix) ==
    Len(data) >= Len(prefix) /\ SubSeq(data, 1, Len(prefix)) = prefix

\* _replace(mapping): pattern.sub over the alternation of the mapping's keys,
\* scanning left to right, the first alternative that matches taken
RECURSIVE replace(_, _)
replace(mapping, data) ==
    IF data = <<>> THEN <<>>
    ELSE LET hits == {i \in 1..Len(mapping) : StartsWith(data, mapping[i][1])} IN
         IF hits = {} THEN <<Head(data)>> \o replace(mapping, Tail(data))
         ELSE LET i == CHOOSE h \in hits : \A g \in hits : h <= g
              IN mapping[i][2] \o replace(mapping, Drop(data, Len(mapping[i][1])))

\* NETASCII.from_netascii and NETASCII.to_netascii on a platform whose
\* os.linesep is NL
from_netascii(NL, data) == replace(<< <<CRLF, NL>>, <<CRNUL, <<CR>>>> >>, data)
to_netascii(NL, data) == replace(<< <<NL, CRLF>>, <<<<CR>>, CRNUL>> >>, data)

\* a write that decodes each chunk on its own and holds nothing back
netascii_write_unbuffered(NL, buffer, chunk) ==
    [buffer |-> <<>>, written |-> from_netascii(NL, buffer \o chunk)]

\* NETASCII.write: [buffer, written], the new _buffer and the bytes handed to
\* _file_handle.write
netascii_write(NL, buffer, chunk) ==
    LET data == buffer \o chunk
        held == data # <<>> /\ data[Len(data)] = CR
    IN [buffer |-> IF held THEN <<CR>> ELSE <<>>,
        written |-> from_netascii(NL, IF held THEN SubSeq(data, 1, Len(data) - 1) ELSE data)]

\* _file_handle.read(n) at position pos: everything left when n < 0
file_read(source, pos, n) ==
    IF n < 0 THEN Drop(source, pos) ELSE Take(Drop(source, pos), n)

\* NETASCII.read: [buffer, data, pos], the new _buffer, the bytes returned and
\* the file's new position
netascii_read(NL, source, pos, buffer, size) ==
    LET got == file_read(source, pos, size - Len(buffer))
        data == buffer \o to_netascii(NL, got)
    IN [buffer |-> Drop(data, size), data |-> Take(data, size), pos |-> pos + Len(got)]

\* lengths of the encoded files and sizes of the read calls
MaxSourceLen == 4
MaxReadSize == 3
SourceBytes == {NUL, LF, CR, 97}
Sources == UNION { [1..n -> SourceBytes] : n \in 0..MaxSourceLen }

InitNetascii ==
    /\ nNL \in {<<LF>>, CRLF}
    /\ nSource \in Sources
    /\ nPos = 0
    /\ nReadBuffer = <<>>
    /\ nStream = <<>>
    /\ nBuffer = <<>>
    /\ nFile = <<>>
    /\ nStep = "new"
    /\ SessionIdle /\ CodecIdle /\ UtilIdle /\ ServerIdle

\* the whole file encoded by one call of to_netascii
NetasciiEncode ==
    /\ nStep = "new"
    /\ nStream' = to_netascii(nNL, nSource)
    /\ nStep' = "encoded"
    /\ UNCHANGED <<nNL, nSource, nPos, nReadBuffer, nBuffer, nFile>>
    /\ UNCHANGED <<codecVars, sessionVars, utilVars, serverVars>>

\* the file encoded by calls of NETASCII.read, until a call returns b''
NetasciiRead ==
    /\ nStep \in {"new", "reading"}
    /\ \E size \in 1..MaxReadSize :
          LET r == netascii_read(nNL, nSource, nPos, nReadBuffer, size) IN
          /\ nReadBuffer' = r.buffer
          /\ nPos' = r.pos
          /\ nStream' = nStream \o r.data
          /\ nStep' = IF r.data = <<>> THEN "encoded" ELSE "reading"
    /\ UNCHANGED <<nNL, nSource, nBuffer, nFile>>
    /\ UNCHANGED <<codecVars, sessionVars, utilVars, serverVars>>

\* the next bytes of the encoded stream, a chunk of any length, handed to
\* NETASCII.write of the decoding object
NetasciiWrite ==
    /\ nStep = "encoded"
    /\ nStream # <<>>
    /\ \E k \in 1..Len(nStream) :
          LET w == netascii_write(nNL, nBuffer, Take(nStream, k)) IN
          /\ nBuffer' = w.buffer
          /\ nFile' = nFile \o w.written
          /\ nStream' = Drop(nStream, k)
    /\ UNCHANGED <<nNL, nSource, nPos, nReadBuffer, nStep>>
    /\ UNCHANGED <<codecVars, sessionVars, utilVars, serverVars>>

NetasciiNext == NetasciiEncode \/ NetasciiRead \/ NetasciiWrite

SpecNetascii == InitNetascii /\ [][NetasciiNext]_vars

\* ------------------------------------------------------------------------
\* C14: NETASCII round trip, in chunks
\* ------------------------------------------------------------------------
HasNul(data) == \E i \in 1..Len(data) : data[i] = NUL

\* C14: for a file S without a NUL byte, once the whole encoded stream has been
\* handed to write, in chunks split anywhere, the bytes written are S and no
\* CR is left in the buffer; before that the bytes written are a prefix of S.
C14_NetasciiRoundTrip ==
    (nStep = "encoded" /\ ~HasNul(nSource))
    => /\ StartsWith(nSource, nFile)
       /\ nStream = <<>> => (nFile = nSource /\ nBuffer = <<>>)

\* a chunk ended between the CR and the LF of an encoded newline: the CR is
\* held in the buffer and the LF is the first byte of the next chunk
C14_Witness ==
    /\ nStep = "encoded" /\ ~HasNul(nSource)
    /\ nBuffer = <<CR>>
    /\ nStream # <<>> /\ Head(nStream) = LF

\* ------------------------------------------------------------------------
\* C15: option negotiation on a decoded request
\* ------------------------------------------------------------------------
\* a dict with its keys as text, whatever their Python type
TextKeys(d) == [i \in 1..Len(d) |-> <<d[i][1].v, d[i][2]>>]
\* the options a request datagram asks for, by name
RequestedOptions(d) ==
    LET o == parse_request(Drop(d, OpcodeLen)).val.options
    IN [i \in 1..Len(o) |-> <<PyStr(o[i][1].v), o[i][2]>>]
\* those with a supported name whose validator returns, with what it returns
NegotiatedOptions(d) == AcknowledgedOptions(RequestedOptions(d), SupportedOptions, <<>>)

\* C15 as claimed: decode of a request by a factory that supports blksize,
\* timeout, tsize and windowsize raises nothing and leaves in the packet
\* exactly the requested options with a supported name and a value its
\* validator accepts, each with the validator's result.
C15_OptionsAccepted ==
    (cStep = "decoded" /\ cSupported = SupportedOptions
     /\ OpcodeOf(cWire.val).ok /\ OpcodeOf(cWire.val).val \in {"RRQ", "WRQ"}
     /\ parse_request(Drop(cWire.val, OpcodeLen)).ok)
    => /\ cDecoded.ok
       /\ TextKeys(cDecoded.val.options) = TextKeys(NegotiatedOptions(cWire.val))

\* What the code does: no option of a request is ever accepted, and no error
\* is raised for any of them.
C15_NothingAccepted ==
    (cStep = "decoded" /\ OpcodeOf(cWire.val).ok
     /\ OpcodeOf(cWire.val).val \in {"RRQ", "WRQ"}
     /\ parse_request(Drop(cWire.val, OpcodeLen)).ok)
    => (cDecoded.ok /\ cDecoded.val.options = <<>>)

\* ------------------------------------------------------------------------
\* C16: the first packet of a session
\* ------------------------------------------------------------------------
OptionNames(d) == {d[i][1].v : i \in 1..Len(d)}
FirstSubstantivePacket ==
    IF direction = "RRQ" THEN TFTPDatPacket(1, Chunk(1)) ELSE TFTPAckPacket(0)

\* C16 as claimed: once a session whose file was opened has sent something,
\* its first packet is an OptionAck with the accepted options when the request
\* asked for options that negotiation accepts, and Data(1) (read) or Ack(0)
\* (write) when it asked for none.
C16_FirstPacket ==
    (started /\ openOutcome = "ok" /\ sent # <<>>)
    => IF NegotiatedOptions(request) # <<>>
       THEN /\ sent[1].pkt.type = "OCK"
            /\ OptionNames(sent[1].pkt.options) = OptionNames(NegotiatedOptions(request))
       ELSE sent[1] = [pkt |-> FirstSubstantivePacket, addr |-> PeerPort]

\* What the code does: whatever the request asked for, the first packet is
\* Data(1) or Ack(0) and no OptionAck is ever sent.
C16_NeverOptionAck ==
    (started /\ openOutcome = "ok" /\ sent # <<>>)
    => /\ sent[1] = [pkt |-> FirstSubstantivePacket, addr |-> PeerPort]
       /\ \A i \in 1..Len(sent) : sent[i].pkt.type # "OCK"

\* ------------------------------------------------------------------------
\* C17: the transfer uses the negotiated blksize
\* ------------------------------------------------------------------------
\* d[name] of a dict d that has the key
OptionValue(d, name) == d[CHOOSE i \in 1..Len(d) : d[i][1].v = name][2]
\* the Data packet carries the last bytes of the file
IsFinalBlock(q) == q.data.v[1] + q.data.v[2] = fileSize

C17_AlwaysDefaultBlksize ==
    (direction = "RRQ" /\ started /\ openOutcome = "ok")
    => \A q \in SentPackets(sent, PeerPort) :
          q.type = "DAT" => (PayloadLen(q.data) = DefaultBlksize \/ IsFinalBlock(q))

\* ------------------------------------------------------------------------
\* C18: the Error packet of a failed open
\* ------------------------------------------------------------------------
RfcErrorCode ==
    CASE openOutcome = "FileNotFoundError" -> 1
      [] openOutcome = "FileExistsError" -> 6
      [] OTHER -> 2

\* C18 as claimed: in a session whose file could not be opened, the first
\* packet is the Error with the code of the failure (1 not found, 6 already
\* exists, 2 permission denied) and no Data, Ack or OptionAck is ever sent.
C18_OpenFailure ==
    (started /\ openOutcome # "ok")
    => /\ sent # <<>>
       /\ sent[1].addr = PeerPort
       /\ sent[1].pkt.type = "ERR" /\ sent[1].pkt.code = PyInt(RfcErrorCode)
       /\ \A i \in 1..Len(sent) : sent[i].pkt.type \notin {"DAT", "ACK", "OCK"}

\* What the code does: the first packet is the Error with the matching code.
C18_MatchingErrorCode ==
    (started /\ openOutcome # "ok")
    => /\ sent # <<>>
       /\ sent[1].addr = PeerPort
       /\ sent[1].pkt.type = "ERR" /\ sent[1].pkt.code = PyInt(RfcErrorCode)

\* ------------------------------------------------------------------------
\* C19: an Error or a packet of the wrong type from the session's own peer
\* ------------------------------------------------------------------------
WrongTypeFor(d) == IF d = "RRQ" THEN {"DAT", "RRQ", "WRQ"} ELSE {"ACK", "RRQ", "WRQ"}

ProtocolViolationHandled ==
    /\ started /\ openOutcome = "ok"
    /\ lastEvent'.kind = "datagram_received" /\ lastEvent'.addr = PeerPort
    /\ lastEvent'.type \in {"ERR"} \cup WrongTypeFor(direction)

\* C19 as claimed: when an established session receives from its own peer an
\* Error packet, or a packet whose type is wrong for its direction, it
\* terminates at once: it closes, cancels its timers, sends no reply and has
\* no retransmission left to send.
C19_Step ==
    ProtocolViolationHandled
    => /\ transport' # "open"
       /\ retransmits' = EmptyBag
       /\ idleTimers' = EmptyBag
       /\ NewlySent = <<>>
C19_ProtocolViolationTerminates == [][C19_Step]_vars

\* what the code does instead: the packet is ignored, the session goes on as
\* it was, its timers still armed
C19_IgnoredStep ==
    ProtocolViolationHandled => (SessionFrame /\ NewlySent = <<>>)
C19_ProtocolViolationIgnored == [][C19_IgnoredStep]_vars

\* ------------------------------------------------------------------------
\* C20: a retransmit timer fires for a Data packet of a read session
\* ------------------------------------------------------------------------
DataRetransmitted ==
    /\ direction = "RRQ"
    /\ lastEvent'.kind = "retransmit" /\ lastEvent'.type = "DAT"

FiredPacket == TFTPDatPacket(lastEvent'.block_no.v[1], lastEvent'.data)

\* C20: each firing of the retransmit timer of a Data packet of a read session
\* sends a copy of that packet, identical to the one sent before, to the
\* session's peer and arms exactly one new retransmit timer for it (the fired
\* one is consumed, so as many timers are pending after as before); the block
\* counter, the file read position and the in-flight window are unchanged.
C20_Step ==
    DataRetransmitted
    => /\ BagIn(FiredPacket, retransmits)
       /\ \E i \in 1..Len(sent) : sent[i] = [pkt |-> FiredPacket, addr |-> PeerPort]
       /\ encode(FiredPacket).ok
       /\ NewlySent = <<[pkt |-> FiredPacket, addr |-> PeerPort]>>
       /\ retransmits' = retransmits
       /\ counter' = counter
       /\ filePos' = filePos /\ finished' = finished
       /\ packets' = packets
C20_RetransmitIdentical == [][C20_Step]_vars

\* a packet of a window, not the newest one, has been retransmitted while the
\* session was open
C20_Witness ==
    /\ direction = "RRQ" /\ windowsize > 1 /\ transport = "open"
    /\ lastEvent.kind = "retransmit" /\ lastEvent.type = "DAT"
    /\ lastEvent.block_no.v[1] < counter
    /\ Len(sent) > windowsize
    /\ sent[Len(sent)].pkt.block_no = lastEvent.block_no

\* ------------------------------------------------------------------------
\* C21: timers after teardown
\* ------------------------------------------------------------------------
TornDown == transport = "closed"

\* C21 as claimed: once a session is torn down (its transport closed and
\* connection_lost delivered), none of its retransmit timers and no idle
\* timer is pending, so no timer callback of it can run.
\* and it sends no packet after teardown.
C21_NoTimerPending == TornDown => (retransmits = EmptyBag /\ idleTimers = EmptyBag)
C21_SilentStep == TornDown => sent' = sent
C21_NoTimerAfterTeardown == []C21_NoTimerPending /\ [][C21_SilentStep]_vars

\* a windowed read session torn down in mid-transfer, after more than one
\* window of Data packets, each sent with its timer
C21_Witness ==
    /\ TornDown /\ lastEvent.kind = "connection_lost"
    /\ direction = "RRQ" /\ windowsize > 1 /\ openOutcome = "ok"
    /\ ~finished /\ Len(sent) > windowsize

\* ------------------------------------------------------------------------
\* C22: the file handle of a closed session
\* ------------------------------------------------------------------------
\* C22 as claimed (its safety half): in every state where the session's
\* socket is closed, the file handle the session opened is closed too.
C22_ResourcesReleased ==
    (TornDown /\ file_handler # "None") => fileClosed

\* what the code does: no handler of a terminal transition (connection_lost,
\* the idle timers' callbacks, error_received) closes the file; it is closed
\* by the read that reaches the end of the file, by the write of a short block
\* and by the finalizer
C22_TerminalStep ==
    lastEvent'.kind \in {"connection_lost", "idle_timeout", "error_received"}
    => fileClosed' = fileClosed
C22_TerminalLeavesFileOpen == [][C22_TerminalStep]_vars

\* ------------------------------------------------------------------------
\* Dispatcher: TFTPServerFactory on the listening socket
\* ------------------------------------------------------------------------
is_rrq(p) == p.type = "RRQ"
is_wrq(p) == p.type = "WRQ"

\* a get_protocol that answers every packet with a read session
get_protocol_always_read(p) == Ok("RRQProtocolFactory")

\* get_protocol
get_protocol(p) ==
    IF is_rrq(p) THEN Ok("RRQProtocolFactory")
    ELSE IF is_wrq(p) THEN Ok("WRQProtocolFactory")
    ELSE Raise("ValueError")

\* get_file_handler: the callable handed to the session as its file handler class
get_file_handler(p) ==
    IF is_rrq(p) THEN "lambda path, options: FileReader(path, options, packet._mode)"
    ELSE "lambda path, options: FileWriter(path, options, packet._mode)"

\* calling that callable: BaseFileIO.__init__ takes a path and a chunk size,
\* and is given three arguments
call_file_handler(handler) == Raise("TypeError")

\* the port of the listening socket (the default of the server's --port)
ListenSocket == 6969
MaxRequests == 2
\* the ports the system can give to a socket bound to port 0
EphemeralSockets == 1..(MaxRequests + 1)

\* datagrams that reach the listening socket: requests with and without
\* options, a request cut after its opcode, each other packet type, an
\* unknown opcode and a single byte
ServerDatagrams ==
    { RequestDatagram(t, o) : t \in {"RRQ", "WRQ"}, o \in RequestOptions }
    \cup { encode(q).val : q \in { TFTPAckPacket(1), TFTPDatPacket(1, PyBytes(S_f)),
                                  create_err_file_404, TFTPOckPacket(<<>>) } }
    \cup { <<0, 1>>, <<0, 7>>, <<0>> }

InitServer ==
    /\ dReceived = <<>>
    /\ dTasks = {}
    /\ dSessions = {}
    /\ dSent = <<>>
    /\ SessionIdle /\ CodecIdle /\ UtilIdle /\ NetasciiIdle

\* TFTPServerFactory.datagram_received: decode, get_protocol, get_file_handler
\* (an exception of any of them ends the handler), then the creation of the
\* session's endpoint is submitted to the loop
ServerDatagramReceived ==
    /\ Len(dReceived) < MaxRequests
    /\ \E data \in ServerDatagrams, addr \in {PeerPort, ForeignPort} :
          LET pk == decode(data, NoSupportedOptions)
              protocol == IF pk.ok THEN get_protocol(pk.val) ELSE Raise(pk.exc)
          IN /\ dReceived' = Append(dReceived, [data |-> data, addr |-> addr])
             /\ dTasks' = IF protocol.ok
                          THEN dTasks \cup {[datagram |-> Len(dReceived) + 1,
                                             protocol |-> protocol.val,
                                             file_handler |-> get_file_handler(pk.val),
                                             data |-> data, addr |-> addr]}
                          ELSE dTasks
    /\ UNCHANGED <<dSessions, dSent, codecVars, sessionVars, utilVars, netasciiVars>>

\* the loop runs a submitted create_datagram_endpoint(lambda: protocol(data,
\* file_handler, addr, kwargs), (host, 0)): a socket is bound to a port the
\* system chooses, the session is constructed (its __init__ decodes the
\* request again) and its connection_made is called, which fails in
\* _open_file_handler when it calls the file handler
EndpointCreated ==
    /\ \E task \in dTasks :
          \E socket \in EphemeralSockets \ {x.socket : x \in dSessions} :
             /\ dTasks' = dTasks \ {task}
             /\ dSessions' =
                   IF decode(task.data, SupportedOptions).ok
                   THEN dSessions \cup {[datagram |-> task.datagram,
                                         protocol |-> task.protocol,
                                         remote_addr |-> task.addr,
                                         socket |-> socket,
                                         connection_made |-> call_file_handler(task.file_handler).exc,
                                         sent |-> <<>>]}
                   ELSE dSessions
    /\ UNCHANGED <<dReceived, dSent, codecVars, sessionVars, utilVars, netasciiVars>>

ServerNext == ServerDatagramReceived \/ EndpointCreated

SpecServer == InitServer /\ [][ServerNext]_vars

\* ------------------------------------------------------------------------
\* C23: one session per request
\* ------------------------------------------------------------------------
\* the session class a datagram calls for, by its opcode: none unless it is a
\* well-formed request
SessionClassFor(data) ==
    IF ~parse_request(Drop(data, OpcodeLen)).ok \/ ~OpcodeOf(data).ok THEN "none"
    ELSE CASE OpcodeOf(data).val = "RRQ" -> "RRQProtocolFactory"
           [] OpcodeOf(data).val = "WRQ" -> "WRQProtocolFactory"
           [] OTHER -> "none"

\* the sessions created or being created for the i-th datagram
SessionsFor(i) == {x \in dTasks \cup dSessions : x.datagram = i}

\* C23: for each datagram received on the listening socket there is exactly
\* one session, a read session for an RRQ and a write session for a WRQ, with
\* the datagram's sender as its peer, and none for any other datagram; each
\* session has a socket of its own, which is not the listening socket; and
\* the listening socket never sends a datagram.
C23_OneSessionPerRequest ==
    /\ \A i \in 1..Len(dReceived) :
          IF SessionClassFor(dReceived[i].data) = "none" THEN SessionsFor(i) = {}
          ELSE /\ Cardinality(SessionsFor(i)) = 1
               /\ \A x \in SessionsFor(i) :
                     /\ x.protocol = SessionClassFor(dReceived[i].data)
                     /\ x \in dSessions => x.remote_addr = dReceived[i].addr
                     /\ x \in dTasks => x.addr = dReceived[i].addr
    /\ \A x, y \in dSessions : x.socket = y.socket => x = y
    /\ \A x \in dSessions : x.socket # ListenSocket
    /\ dSent = <<>>

\* two requests of the same peer, a read and a write, each with its session
C23_Witness ==
    /\ Len(dReceived) = MaxRequests /\ dTasks = {}
    /\ Cardinality(dSessions) = MaxRequests
    /\ \E x, y \in dSessions :
          /\ x.protocol = "RRQProtocolFactory" /\ y.protocol = "WRQProtocolFactory"
          /\ x.remote_addr = y.remote_addr

C24_StopAndWaitInRange == windowsize = 1 => counter \in 0..(ShortMod - 1)

C25_WindowLength ==
    WindowedRead
    => /\ Len(packets) = windowsize
       /\ \A i \in 1..Len(packets) : packets[i].type \in {"DAT", "None"}

\* ------------------------------------------------------------------------
\* C26: tsize in the OptionAck of a read session
\* ------------------------------------------------------------------------
AskedForTsize ==
    /\ direction = "RRQ" /\ started /\ openOutcome = "ok"
    /\ S_tsize \in OptionNames(RequestedOptions(request))

\* C26 as claimed: a read session whose request asked for tsize sends an
\* OptionAck to its peer that carries tsize equal to the size of the opened
\* file, and every other accepted option as negotiation accepted it.
C26_TsizeInOptionAck ==
    AskedForTsize
    => /\ sent # <<>>
       /\ sent[1].addr = PeerPort /\ sent[1].pkt.type = "OCK"
       /\ OptionNames(sent[1].pkt.options) = OptionNames(NegotiatedOptions(request))
       /\ \A name \in OptionNames(sent[1].pkt.options) :
             OptionValue(sent[1].pkt.options, name) =
                IF name = S_tsize THEN PyInt(fileSize)
                ELSE OptionValue(NegotiatedOptions(request), name)

\* what the code does: such a session starts with Data(1), and its accepted
\* options stay empty
C26_TsizeIgnored ==
    AskedForTsize
    => /\ r_options = Dict(<<>>)
       /\ sent # <<>> /\ sent[1].pkt.type = "DAT" /\ sent[1].pkt.block_no = PyInt(1)

\* ------------------------------------------------------------------------
\* C27: the payload of a block number
\* ------------------------------------------------------------------------
DataSent == {q \in SentPackets(sent, PeerPort) : q.type = "DAT"}

PayloadPerBlock ==
    /\ \A q \in DataSent : q.block_no.v[1] >= 1 /\ q.data = Chunk(q.block_no.v[1])
    /\ \A q \in DataSent : \A n \in 1..(q.block_no.v[1] - 1) :
          \E r \in DataSent : r.block_no.v[1] = n

C27_StopAndWaitPayload ==
    (direction = "RRQ" /\ openOutcome = "ok" /\ windowsize = 1) => PayloadPerBlock

\* ------------------------------------------------------------------------
\* C28: the number of pending timers
\* ------------------------------------------------------------------------
\* C28: in every reachable state of a session at most windowsize retransmit
\* timers are pending (at most one without a window) and at most one idle
\* timer is pending.
C28_TimerCount ==
    /\ BagCardinality(retransmits) <= windowsize
    /\ BagCardinality(idleTimers) <= 1

\* a windowed read session with a full window in flight, one timer per packet
C28_Witness ==
    /\ direction = "RRQ" /\ windowsize > 1 /\ transport = "open"
    /\ BagCardinality(retransmits) = windowsize
    /\ BagCardinality(idleTimers) = 1
    /\ lastEvent.kind = "retransmit"


====
